---- MODULE Spec2Model ----
(***************************************************************************)
(* A model of src/trie.py: the autocomplete trie (TrieNode, Trie) with     *)
(* insert, remove, contains, complete, items and stats.                    *)
(*                                                                         *)
(* A TrieNode is the record [children, is_word, freq]; children is a       *)
(* function from the symbols that have a child to the child's record, so   *)
(* a node owns its whole subtree, as the Python object does, and deleting  *)
(* a key of children drops the subtree under it.  A word is a sequence of  *)
(* one-character strings.  Weights are small integers.                     *)
(***************************************************************************)
EXTENDS Integers, Sequences, FiniteSets, TLC

VARIABLES root, _words, _nodes, call, ret, pre, stored

vars == <<root, _words, _nodes, call, ret, pre, stored>>

(***************************************************************************)
(* Bounds of the model.                                                    *)
(***************************************************************************)
Symbols == {"a", "b"}
MaxLen == 2
MaxWords == 3
MaxK == 2

(***************************************************************************)
(* The words the callers use: every word of at most MaxLen symbols in      *)
(* which only the last symbol may differ from "a" (the empty word, a, b,   *)
(* aa, ab, ...), so that words are prefixes, extensions and siblings of    *)
(* one another at every depth.                                             *)
(***************************************************************************)
Words ==
    {w \in UNION {[1..n -> Symbols] : n \in 0..MaxLen} :
        \A i \in 1..(Len(w) - 1) : w[i] = "a"}
Weights == {1, 2}
Ks == (0 - MaxK)..MaxK

(***************************************************************************)
(* Python's order on one-character strings is the order of code points.    *)
(***************************************************************************)
ord == [a |-> 97, b |-> 98]

RECURSIVE str_lt(_, _)
str_lt(u, v) ==
    IF u = <<>> THEN v # <<>>
    ELSE IF v = <<>> THEN FALSE
    ELSE IF ord[Head(u)] # ord[Head(v)] THEN ord[Head(u)] < ord[Head(v)]
    ELSE str_lt(Tail(u), Tail(v))

sorted_keys_reversed(children) ==
    LET keys == DOMAIN children
        rank(c) == Cardinality({d \in keys : ord[d] > ord[c]}) + 1
    IN  [i \in 1..Cardinality(keys) |-> CHOOSE c \in keys : rank(c) = i]

sorted_keys(children) ==
    LET keys == DOMAIN children
        rank(c) == Cardinality({d \in keys : ord[d] < ord[c]}) + 1
    IN  [i \in 1..Cardinality(keys) |-> CHOOSE c \in keys : rank(c) = i]

(***************************************************************************)
(* TrieNode.__init__ and Trie.__init__                                     *)
(***************************************************************************)
TrieNode == [children |-> [c \in {} |-> 0], is_word |-> FALSE, freq |-> 0]

Trie == [root |-> TrieNode, _words |-> 0, _nodes |-> 1]

Self == [root |-> root, _words |-> _words, _nodes |-> _nodes]

(***************************************************************************)
(* Trie.insert                                                             *)
(***************************************************************************)
insert_end_always_counts(node, freq) ==
    [node |-> [node EXCEPT !.is_word = TRUE, !.freq = freq],
     new_word |-> 1,
     created |-> 0]

insert_end_additive(node, freq) ==
    [node |-> [node EXCEPT !.is_word = TRUE, !.freq = node.freq + freq],
     new_word |-> IF ~node.is_word THEN 1 ELSE 0,
     created |-> 0]

insert_end(node, freq) ==
    [node |-> [node EXCEPT !.is_word = TRUE, !.freq = freq],
     new_word |-> IF ~node.is_word THEN 1 ELSE 0,
     created |-> 0]

RECURSIVE insert_walk(_, _, _, _)
insert_walk(node, word, i, freq) ==
    IF i > Len(word) THEN insert_end(node, freq)
    ELSE LET char == word[i]
             absent == char \notin DOMAIN node.children
             child == IF absent THEN TrieNode ELSE node.children[char]
             r == insert_walk(child, word, i + 1, freq)
         IN  [node |-> [node EXCEPT !.children = (char :> r.node) @@ node.children],
              new_word |-> r.new_word,
              created |-> r.created + (IF absent THEN 1 ELSE 0)]

insert_skips_empty(self, word, freq) ==
    IF word = <<>> THEN self
    ELSE LET r == insert_walk(self.root, word, 1, freq)
         IN  [root |-> r.node,
              _words |-> self._words + r.new_word,
              _nodes |-> self._nodes + r.created]

insert(self, word, freq) ==
    LET r == insert_walk(self.root, word, 1, freq)
    IN  [root |-> r.node,
         _words |-> self._words + r.new_word,
         _nodes |-> self._nodes + r.created]

(***************************************************************************)
(* Trie.remove: _remove returns the node as it is left, the boolean it     *)
(* returns (should_delete), and how often it decremented each counter.     *)
(***************************************************************************)
_remove_end_ignores_children(node) ==
    IF node.is_word
    THEN [node |-> [node EXCEPT !.is_word = FALSE],
          result |-> TRUE,
          words_dec |-> 1, nodes_dec |-> 0]
    ELSE [node |-> node, result |-> FALSE, words_dec |-> 0, nodes_dec |-> 0]

_remove_end_keeps_count(node) ==
    IF node.is_word
    THEN [node |-> [node EXCEPT !.is_word = FALSE],
          result |-> (DOMAIN node.children = {}),
          words_dec |-> 0, nodes_dec |-> 0]
    ELSE [node |-> node, result |-> FALSE, words_dec |-> 0, nodes_dec |-> 0]

_remove_end_unchecked(node) ==
    [node |-> [node EXCEPT !.is_word = FALSE],
     result |-> (DOMAIN node.children = {}) /\ node.is_word,
     words_dec |-> 1, nodes_dec |-> 0]

_remove_end(node) ==
    IF node.is_word
    THEN [node |-> [node EXCEPT !.is_word = FALSE],
          result |-> (DOMAIN node.children = {}),
          words_dec |-> 1, nodes_dec |-> 0]
    ELSE [node |-> node, result |-> FALSE, words_dec |-> 0, nodes_dec |-> 0]

_remove_unwind_stops(node, char, r) ==
    IF r.result
    THEN LET kept == [c \in (DOMAIN node.children) \ {char} |-> node.children[c]]
         IN  [node |-> [node EXCEPT !.children = kept],
              result |-> FALSE,
              words_dec |-> r.words_dec, nodes_dec |-> r.nodes_dec + 1]
    ELSE [node |-> [node EXCEPT !.children[char] = r.node],
          result |-> FALSE,
          words_dec |-> r.words_dec, nodes_dec |-> r.nodes_dec]

_remove_unwind_keeps_count(node, char, r) ==
    IF r.result
    THEN LET kept == [c \in (DOMAIN node.children) \ {char} |-> node.children[c]]
         IN  [node |-> [node EXCEPT !.children = kept],
              result |-> (DOMAIN kept = {}) /\ ~node.is_word,
              words_dec |-> r.words_dec, nodes_dec |-> r.nodes_dec]
    ELSE [node |-> [node EXCEPT !.children[char] = r.node],
          result |-> FALSE,
          words_dec |-> r.words_dec, nodes_dec |-> r.nodes_dec]

_remove_unwind_counts_once(node, char, r) ==
    IF r.result
    THEN LET kept == [c \in (DOMAIN node.children) \ {char} |-> node.children[c]]
         IN  [node |-> [node EXCEPT !.children = kept],
              result |-> (DOMAIN kept = {}) /\ ~node.is_word,
              words_dec |-> r.words_dec, nodes_dec |-> 1]
    ELSE [node |-> [node EXCEPT !.children[char] = r.node],
          result |-> FALSE,
          words_dec |-> r.words_dec, nodes_dec |-> r.nodes_dec]

_remove_unwind_always_propagates(node, char, r) ==
    IF r.result
    THEN LET kept == [c \in (DOMAIN node.children) \ {char} |-> node.children[c]]
         IN  [node |-> [node EXCEPT !.children = kept],
              result |-> TRUE,
              words_dec |-> r.words_dec, nodes_dec |-> r.nodes_dec + 1]
    ELSE [node |-> [node EXCEPT !.children[char] = r.node],
          result |-> FALSE,
          words_dec |-> r.words_dec, nodes_dec |-> r.nodes_dec]

_remove_unwind(node, char, r) ==
    IF r.result
    THEN LET kept == [c \in (DOMAIN node.children) \ {char} |-> node.children[c]]
         IN  [node |-> [node EXCEPT !.children = kept],
              result |-> (DOMAIN kept = {}) /\ ~node.is_word,
              words_dec |-> r.words_dec, nodes_dec |-> r.nodes_dec + 1]
    ELSE [node |-> [node EXCEPT !.children[char] = r.node],
          result |-> FALSE,
          words_dec |-> r.words_dec, nodes_dec |-> r.nodes_dec]

RECURSIVE _remove(_, _, _)
_remove(node, word, index) ==
    IF index = Len(word) THEN _remove_end(node)
    ELSE LET char == word[index + 1]
         IN  IF char \notin DOMAIN node.children
             THEN [node |-> node, result |-> FALSE, words_dec |-> 0, nodes_dec |-> 0]
             ELSE _remove_unwind(node, char, _remove(node.children[char], word, index + 1))

remove_prunes_root(self, word) ==
    LET r == _remove(self.root, word, 0)
    IN  [self |-> [root |-> r.node,
                   _words |-> self._words - r.words_dec,
                   _nodes |-> self._nodes - r.nodes_dec - (IF r.result THEN 1 ELSE 0)],
         result |-> r.result]

remove(self, word) ==
    LET r == _remove(self.root, word, 0)
    IN  [self |-> [root |-> r.node,
                   _words |-> self._words - r.words_dec,
                   _nodes |-> self._nodes - r.nodes_dec],
         result |-> r.result]

(***************************************************************************)
(* Trie.contains                                                           *)
(***************************************************************************)
RECURSIVE contains_walk_any_node(_, _, _)
contains_walk_any_node(node, word, i) ==
    IF i > Len(word) THEN TRUE
    ELSE IF word[i] \notin DOMAIN node.children THEN FALSE
    ELSE contains_walk_any_node(node.children[word[i]], word, i + 1)

RECURSIVE contains_walk(_, _, _)
contains_walk(node, word, i) ==
    IF i > Len(word) THEN node.is_word
    ELSE IF word[i] \notin DOMAIN node.children THEN FALSE
    ELSE contains_walk(node.children[word[i]], word, i + 1)

contains(self, word) == contains_walk(self.root, word, 1)

(***************************************************************************)
(* Trie.complete                                                           *)
(***************************************************************************)
RECURSIVE collect(_, _)
RECURSIVE collect_children(_, _, _, _)
collect_children(node, path, keys, i) ==
    IF i > Len(keys) THEN <<>>
    ELSE collect(node.children[keys[i]], Append(path, keys[i]))
         \o collect_children(node, path, keys, i + 1)

collect(node, path) ==
    (IF node.is_word THEN <<<<node.freq, path>>>> ELSE <<>>)
    \o collect_children(node, path, sorted_keys(node.children), 1)

key_lt_ascending(x, y) ==
    \/ x[1] < y[1]
    \/ x[1] = y[1] /\ str_lt(x[2], y[2])

key_lt(x, y) ==
    \/ (0 - x[1]) < (0 - y[1])
    \/ (0 - x[1]) = (0 - y[1]) /\ str_lt(x[2], y[2])

RECURSIVE sort_insert(_, _)
sort_insert(s, x) ==
    IF s = <<>> THEN <<x>>
    ELSE IF key_lt(x, Head(s)) THEN <<x>> \o s
    ELSE <<Head(s)>> \o sort_insert(Tail(s), x)

RECURSIVE sort(_)
sort(s) ==
    IF s = <<>> THEN <<>>
    ELSE sort_insert(sort(SubSeq(s, 1, Len(s) - 1)), s[Len(s)])

slice(s, k) ==
    LET stop == IF k < 0
                THEN (IF Len(s) + k < 0 THEN 0 ELSE Len(s) + k)
                ELSE (IF k > Len(s) THEN Len(s) ELSE k)
    IN  SubSeq(s, 1, stop)

RECURSIVE find_node(_, _, _)
find_node(node, prefix, i) ==
    IF i > Len(prefix) THEN [found |-> TRUE, node |-> node]
    ELSE IF prefix[i] \notin DOMAIN node.children THEN [found |-> FALSE, node |-> node]
    ELSE find_node(node.children[prefix[i]], prefix, i + 1)

complete(self, prefix, k) ==
    LET f == find_node(self.root, prefix, 1)
    IN  IF ~f.found THEN <<>>
        ELSE LET candidates == slice(sort(collect(f.node, prefix)), k)
             IN  [i \in 1..Len(candidates) |-> candidates[i][2]]

(***************************************************************************)
(* Trie.items                                                              *)
(***************************************************************************)
RECURSIVE items_collect(_, _)
RECURSIVE items_collect_children(_, _, _, _)
items_collect_children(node, path, keys, i) ==
    IF i > Len(keys) THEN <<>>
    ELSE items_collect(node.children[keys[i]], Append(path, keys[i]))
         \o items_collect_children(node, path, keys, i + 1)

items_collect(node, path) ==
    (IF node.is_word THEN <<<<path, node.freq>>>> ELSE <<>>)
    \o items_collect_children(node, path, sorted_keys(node.children), 1)

items(self) == items_collect(self.root, <<>>)

(***************************************************************************)
(* Trie.stats                                                              *)
(***************************************************************************)
RECURSIVE get_height_min(_)
get_height_min(node) ==
    IF DOMAIN node.children = {} THEN 0
    ELSE LET hs == {get_height_min(node.children[c]) : c \in DOMAIN node.children}
         IN  1 + CHOOSE h \in hs : \A g \in hs : h <= g

RECURSIVE get_height(_)
get_height(node) ==
    IF DOMAIN node.children = {} THEN 0
    ELSE LET hs == {get_height(node.children[c]) : c \in DOMAIN node.children}
         IN  1 + CHOOSE h \in hs : \A g \in hs : g <= h

stats(self) == <<self._words, get_height(self.root), self._nodes>>

(***************************************************************************)
(* The state machine.  The program is single-threaded and synchronous: a   *)
(* caller makes one call at a time and gets its result before the next.    *)
(* One action per public method makes the call on the Trie as it is; call  *)
(* is then the call and its arguments, ret what it returned (None for      *)
(* insert) and pre the Trie as it was when the call began.  Return hands   *)
(* control back to the caller, who may then make any call.  stored is the  *)
(* history of the calls: the words inserted and not removed since, each    *)
(* with the weight of its last insert.                                     *)
(***************************************************************************)
NoCall == [op |-> "idle", word |-> <<>>, freq |-> 0, k |-> 0]

Init ==
    /\ root = Trie.root
    /\ _words = Trie._words
    /\ _nodes = Trie._nodes
    /\ call = NoCall
    /\ ret = "None"
    /\ pre = Trie
    /\ stored = [w \in {} |-> 0]

Insert ==
    \E word \in Words, freq \in Weights :
        /\ call = NoCall
        /\ word \in DOMAIN stored \/ Cardinality(DOMAIN stored) < MaxWords
        /\ LET t == insert(Self, word, freq)
           IN  /\ root' = t.root
               /\ _words' = t._words
               /\ _nodes' = t._nodes
        /\ call' = [op |-> "insert", word |-> word, freq |-> freq, k |-> 0]
        /\ ret' = "None"
        /\ pre' = Self
        /\ stored' = (word :> freq) @@ stored

Remove ==
    \E word \in Words :
        /\ call = NoCall
        /\ LET r == remove(Self, word)
           IN  /\ root' = r.self.root
               /\ _words' = r.self._words
               /\ _nodes' = r.self._nodes
               /\ ret' = r.result
        /\ call' = [op |-> "remove", word |-> word, freq |-> 0, k |-> 0]
        /\ pre' = Self
        /\ stored' = [w \in (DOMAIN stored) \ {word} |-> stored[w]]

RECURSIVE autovivify(_, _, _)
autovivify(node, word, i) ==
    IF i > Len(word) THEN node
    ELSE LET char == word[i]
             child == IF char \in DOMAIN node.children
                      THEN node.children[char] ELSE TrieNode
         IN  [node EXCEPT !.children =
                  (char :> autovivify(child, word, i + 1)) @@ node.children]

Contains_autovivify ==
    \E word \in Words :
        /\ call = NoCall
        /\ ret' = contains(Self, word)
        /\ call' = [op |-> "contains", word |-> word, freq |-> 0, k |-> 0]
        /\ pre' = Self
        /\ root' = autovivify(root, word, 1)
        /\ UNCHANGED <<_words, _nodes, stored>>

Contains ==
    \E word \in Words :
        /\ call = NoCall
        /\ ret' = contains(Self, word)
        /\ call' = [op |-> "contains", word |-> word, freq |-> 0, k |-> 0]
        /\ pre' = Self
        /\ UNCHANGED <<root, _words, _nodes, stored>>

Complete ==
    \E prefix \in Words, k \in Ks :
        /\ call = NoCall
        /\ ret' = complete(Self, prefix, k)
        /\ call' = [op |-> "complete", word |-> prefix, freq |-> 0, k |-> k]
        /\ pre' = Self
        /\ UNCHANGED <<root, _words, _nodes, stored>>

Items ==
    /\ call = NoCall
    /\ ret' = items(Self)
    /\ call' = [op |-> "items", word |-> <<>>, freq |-> 0, k |-> 0]
    /\ pre' = Self
    /\ UNCHANGED <<root, _words, _nodes, stored>>

Stats ==
    /\ call = NoCall
    /\ ret' = stats(Self)
    /\ call' = [op |-> "stats", word |-> <<>>, freq |-> 0, k |-> 0]
    /\ pre' = Self
    /\ UNCHANGED <<root, _words, _nodes, stored>>

Return ==
    /\ call # NoCall
    /\ call' = NoCall
    /\ ret' = "None"
    /\ pre' = Self
    /\ UNCHANGED <<root, _words, _nodes, stored>>

Next == Insert \/ Remove \/ Contains \/ Complete \/ Items \/ Stats \/ Return

Spec == Init /\ [][Next]_vars

(***************************************************************************)
(* The calls that change the trie, in any order: what holds "after any     *)
(* sequence of insert and remove calls" is what holds in every state of    *)
(* SpecMut.                                                                *)
(***************************************************************************)
NextMut == Insert \/ Remove \/ Return

SpecMut == Init /\ [][NextMut]_vars

(***************************************************************************)
(* Two calls in a row.  RemoveNext is a remove the caller makes as soon as *)
(* an insert or a remove has returned, with nothing in between; call.last  *)
(* then holds that earlier call and the Trie as it was when it began.      *)
(***************************************************************************)
RemoveNext ==
    \E word \in Words :
        /\ call.op \in {"insert", "remove"}
        /\ "last" \notin DOMAIN call
        /\ LET r == remove(Self, word)
           IN  /\ root' = r.self.root
               /\ _words' = r.self._words
               /\ _nodes' = r.self._nodes
               /\ ret' = r.result
        /\ call' = [op |-> "remove", word |-> word, freq |-> 0, k |-> 0,
                    last |-> [call |-> call, pre |-> pre]]
        /\ pre' = Self
        /\ stored' = [w \in (DOMAIN stored) \ {word} |-> stored[w]]

NextSeq == Insert \/ Remove \/ RemoveNext \/ Return

SpecSeq == Init /\ [][NextSeq]_vars

(***************************************************************************)
(* What the claims speak of, read off the tree itself.                     *)
(***************************************************************************)
Range(s) == {s[i] : i \in DOMAIN s}

IsPrefix(p, w) == Len(p) <= Len(w) /\ SubSeq(w, 1, Len(p)) = p

Prefixes(w) == {SubSeq(w, 1, n) : n \in 0..Len(w)}

\* The paths of the nodes reachable from node, itself at path.
RECURSIVE NodePaths(_, _)
NodePaths(node, path) ==
    {path} \cup UNION {NodePaths(node.children[c], Append(path, c)) :
                          c \in DOMAIN node.children}

\* The node at path p under the root r (p is in NodePaths(r, <<>>)).
RECURSIVE NodeAt(_, _)
NodeAt(r, p) == IF p = <<>> THEN r ELSE NodeAt(r.children[Head(p)], Tail(p))

\* The words that are stored under the root r: the paths of its terminal nodes.
TerminalPaths(r) == {p \in NodePaths(r, <<>>) : NodeAt(r, p).is_word}

\* The weight stored for w under r, as a set: empty when w has no node.
WeightAt(r, w) == {NodeAt(r, p).freq : p \in {q \in NodePaths(r, <<>>) : q = w}}

(***************************************************************************)
(* C1: remove(W) returns true exactly when W was a stored word just before *)
(* the call, also when other stored words share a prefix with W or extend  *)
(* it.                                                                     *)
(***************************************************************************)
C1_RemoveReturnsWasStored ==
    call.op = "remove" => (ret = (call.word \in TerminalPaths(pre.root)))

(***************************************************************************)
(* C2: after insert(W, F), contains(W) is true and stats().word_count is   *)
(* one more than before if W was not stored, and unchanged if it was.      *)
(***************************************************************************)
C2_InsertStoresAndCounts ==
    call.op = "insert" =>
        /\ contains(Self, call.word)
        /\ stats(Self)[1] = stats(pre)[1]
               + (IF call.word \in TerminalPaths(pre.root) THEN 0 ELSE 1)

C2_Witness ==
    /\ call.op = "insert"
    /\ call.word = <<"a">>
    /\ <<"a">> \in NodePaths(pre.root, <<>>) \ TerminalPaths(pre.root)
    /\ _words = 3

(***************************************************************************)
(* C3: for k >= 0, complete(P, k) is the first min(k, c) words of the list *)
(* of all c stored words that start with P, ranked by weight descending    *)
(* and, among equal weights, by word ascending; it is empty when P has no  *)
(* node.                                                                   *)
(***************************************************************************)
RankedBefore(u, v) ==
    \/ stored[u] > stored[v]
    \/ stored[u] = stored[v] /\ str_lt(u, v)

C3_CompleteIsTopK ==
    (call.op = "complete" /\ call.k >= 0) =>
        LET matches == {w \in DOMAIN stored : IsPrefix(call.word, w)}
            c == Cardinality(matches)
            n == IF call.k < c THEN call.k ELSE c
        IN  /\ Len(ret) = n
            /\ Range(ret) \subseteq matches
            /\ \A i, j \in 1..n : i < j => RankedBefore(ret[i], ret[j])
            /\ \A w \in matches \ Range(ret) : \A i \in 1..n : RankedBefore(ret[i], w)
            /\ call.word \notin NodePaths(root, <<>>) => ret = <<>>

C3_Witness ==
    /\ call.op = "complete"
    /\ call.word = <<"a">>
    /\ call.k = 2
    /\ DOMAIN stored = {<<"a">>, <<"a", "a">>, <<"a", "b">>}
    /\ stored[<<"a">>] = 1 /\ stored[<<"a", "a">>] = 2 /\ stored[<<"a", "b">>] = 2
    /\ ret = << <<"a", "a">>, <<"a", "b">> >>

(***************************************************************************)
(* C4: for every k <= 0, zero and negative, complete(P, k) returns the     *)
(* empty sequence, also when P has stored completions.                     *)
(***************************************************************************)
C4_NonPositiveKIsEmpty ==
    (call.op = "complete" /\ call.k <= 0) => ret = <<>>

(***************************************************************************)
(* C5: no orphan: every node reachable from the root, other than the root, *)
(* is terminal or has at least one child.                                  *)
(***************************************************************************)
C5_NoOrphan ==
    \A p \in NodePaths(root, <<>>) \ {<<>>} :
        NodeAt(root, p).is_word \/ DOMAIN NodeAt(root, p).children # {}

C5_Witness ==
    /\ call.op = "remove"
    /\ call.word = <<"a", "b">>
    /\ pre._nodes = 3
    /\ _nodes = 1

(***************************************************************************)
(* C6: node_count, the third component of stats(), is the number of nodes  *)
(* reachable from the root, the root counted as 1.                         *)
(***************************************************************************)
C6_NodeCountIsReachable ==
    /\ _nodes = Cardinality(NodePaths(root, <<>>))
    /\ stats(Self)[3] = Cardinality(NodePaths(root, <<>>))

C6_Witness ==
    /\ call.op = "remove"
    /\ _nodes = pre._nodes - 1
    /\ _nodes = 4

(***************************************************************************)
(* C7: word_count, the first component of stats(), is the number of        *)
(* reachable terminal nodes, which is the number of distinct words         *)
(* inserted and not removed since.                                         *)
(***************************************************************************)
C7_WordCountIsTerminals ==
    /\ _words = Cardinality(TerminalPaths(root))
    /\ stats(Self)[1] = Cardinality(TerminalPaths(root))
    /\ Cardinality(TerminalPaths(root)) = Cardinality(DOMAIN stored)

C7_Witness ==
    /\ call.op = "remove"
    /\ _words = pre._words - 1
    /\ _words = 2
    /\ _nodes = pre._nodes

(***************************************************************************)
(* C8: removing a stored word W leaves contains(W) false and every other   *)
(* stored word V (a prefix of W, an extension of W, a sibling) stored,     *)
(* with its weight unchanged and every node of its path present.           *)
(***************************************************************************)
C8_RemoveKeepsOthers ==
    (call.op = "remove" /\ call.word \in TerminalPaths(pre.root)) =>
        /\ ~contains(Self, call.word)
        /\ \A V \in TerminalPaths(pre.root) \ {call.word} :
               /\ Prefixes(V) \subseteq NodePaths(root, <<>>)
               /\ contains(Self, V)
               /\ WeightAt(root, V) = WeightAt(pre.root, V)

C8_Witness ==
    /\ call.op = "remove"
    /\ call.word = <<"a">>
    /\ TerminalPaths(pre.root) = {<<>>, <<"a">>, <<"a", "b">>}
    /\ TerminalPaths(root) = {<<>>, <<"a", "b">>}

(***************************************************************************)
(* C9: remove(W) of a word that is not stored, a symbol of its path        *)
(* missing or its path ending at a non-terminal node, returns false and    *)
(* leaves the trie as it was: nodes, terminal flags, weights and both      *)
(* counters.                                                               *)
(***************************************************************************)
C9_RemoveAbsentIsNoOp ==
    (call.op = "remove" /\ call.word \notin TerminalPaths(pre.root)) =>
        /\ ret = FALSE
        /\ Self = pre

C9_Witness ==
    /\ call.op = "remove"
    /\ call.word = <<"a">>
    /\ <<"a">> \in NodePaths(pre.root, <<>>) \ TerminalPaths(pre.root)
    /\ ret = FALSE

(***************************************************************************)
(* C10: re-inserting a stored word overwrites its weight: whatever was     *)
(* done to other words in between, the weight items() reports for W and    *)
(* the weight complete() ranks W by is the weight of W's last insert, not  *)
(* the earlier weight and not a sum.                                       *)
(***************************************************************************)
C10_WeightIsLastInserted ==
    \A w \in DOMAIN stored :
        /\ {it[2] : it \in {x \in Range(items(Self)) : x[1] = w}} = {stored[w]}
        /\ {c[1] : c \in {x \in Range(collect(root, <<>>)) : x[2] = w}} = {stored[w]}

C10_Witness ==
    /\ call.op = "insert"
    /\ call.word \in TerminalPaths(pre.root)
    /\ WeightAt(pre.root, call.word) = {1}
    /\ call.freq = 2
    /\ <<call.word, 2>> \in Range(items(Self))

(***************************************************************************)
(* C11: round trip: for a word W that is not stored and whose path shares  *)
(* no node beyond the root with a stored word, insert(W, F) immediately    *)
(* followed by remove(W) brings stats() back to its value before the       *)
(* insert.                                                                 *)
(***************************************************************************)
RemoveFollows(op) ==
    /\ call.op = "remove"
    /\ "last" \in DOMAIN call
    /\ call.last.call.op = op
    /\ call.last.call.word = call.word

Fresh(r, W) ==
    /\ W \notin TerminalPaths(r)
    /\ \A p \in Prefixes(W) \ {<<>>} : p \notin NodePaths(r, <<>>)

C11_InsertRemoveRoundTrip ==
    (RemoveFollows("insert") /\ Fresh(call.last.pre.root, call.word)) =>
        stats(Self) = stats(call.last.pre)

C11_Witness ==
    /\ RemoveFollows("insert")
    /\ call.word = <<"a", "b">>
    /\ Fresh(call.last.pre.root, call.word)
    /\ TerminalPaths(call.last.pre.root) = {<<>>, <<"b">>}
    /\ pre._nodes = 4
    /\ _nodes = 2

(***************************************************************************)
(* C12: remove is idempotent: a remove(W) made immediately after a         *)
(* remove(W) returns false and changes nothing in the trie.                *)
(***************************************************************************)
C12_SecondRemoveIsNoOp ==
    RemoveFollows("remove") => (ret = FALSE /\ Self = pre)

C12_Witness ==
    /\ RemoveFollows("remove")
    /\ call.word = <<"a">>
    /\ call.word \in TerminalPaths(call.last.pre.root)
    /\ <<"a", "b">> \in TerminalPaths(root)
    /\ ret = FALSE

(***************************************************************************)
(* C13: node_count is at least 1 and the root exists in every reachable    *)
(* state: removing the last stored word, the empty string or an absent     *)
(* word neither deletes the root nor brings node_count below 1.            *)
(***************************************************************************)
C13_RootSurvives ==
    /\ _nodes >= 1
    /\ stats(Self)[3] >= 1
    /\ DOMAIN root = {"children", "is_word", "freq"}
    /\ Cardinality(NodePaths(root, <<>>)) >= 1

C13_Witness ==
    /\ call.op = "remove"
    /\ ret = TRUE
    /\ pre._nodes = 3
    /\ pre._words = 1
    /\ _nodes = 1
    /\ DOMAIN root.children = {}

(***************************************************************************)
(* C14: contains(W) is true exactly when W has been inserted and not       *)
(* removed since its last insert; it is false for a W that is only an      *)
(* inner path of longer stored words.                                      *)
(***************************************************************************)
C14_ContainsIsStored ==
    /\ \A W \in Words : contains(Self, W) = (W \in DOMAIN stored)
    /\ call.op = "contains" => ret = (call.word \in DOMAIN stored)

C14_Witness ==
    /\ call.op = "contains"
    /\ call.word = <<"a">>
    /\ ret = FALSE
    /\ <<"a", "b">> \in DOMAIN stored
    /\ <<"a">> \in NodePaths(root, <<>>)

(***************************************************************************)
(* C15: stats().height is the greatest number of edges from the root to a  *)
(* reachable node: 0 for a trie of the root alone, and L after a single    *)
(* word of length L is inserted into an empty trie.                        *)
(***************************************************************************)
Deepest(r) ==
    LET ds == {Len(p) : p \in NodePaths(r, <<>>)}
    IN  CHOOSE d \in ds : \A e \in ds : e <= d

C15_HeightIsDeepest ==
    /\ stats(Self)[2] = Deepest(root)
    /\ call.op = "stats" => ret[2] = Deepest(root)
    /\ NodePaths(root, <<>>) = {<<>>} => stats(Self)[2] = 0
    /\ (call.op = "insert" /\ pre._words = 0 /\ pre._nodes = 1) =>
           stats(Self)[2] = Len(call.word)

C15_Witness ==
    /\ call.op = "stats"
    /\ ret[2] = 2
    /\ TerminalPaths(root) = {<<"a", "b">>, <<"b">>}

(***************************************************************************)
(* C16: lookups never change the trie: contains, complete, items and stats *)
(* leave the nodes, the terminal flags, the weights, word_count and        *)
(* node_count as they were, also when the word or prefix has no path (no   *)
(* node is created or destroyed); and insert never destroys a node.        *)
(***************************************************************************)
Lookups == {"contains", "complete", "items", "stats"}

C16_LookupsChangeNothing ==
    /\ call.op \in Lookups => Self = pre
    /\ call.op = "insert" =>
           /\ NodePaths(pre.root, <<>>) \subseteq NodePaths(root, <<>>)
           /\ _nodes >= pre._nodes

C16_Witness ==
    /\ call.op = "contains"
    /\ call.word = <<"a", "b">>
    /\ ret = FALSE
    /\ NodePaths(root, <<>>) = {<<>>, <<"a">>, <<"a", "a">>}
    /\ Self = pre

(***************************************************************************)
(* C17: items() returns exactly one (word, weight) pair for each stored    *)
(* word, with the weight of its last insert, in strictly ascending         *)
(* lexicographic order of the words (a word before its extensions); and    *)
(* complete("", k) with k >= word_count returns every stored word.  This   *)
(* is stated of what every items and complete call returns, and of what    *)
(* they would return whenever no call is in progress.                      *)
(***************************************************************************)
StoredInOrder(it) ==
    /\ Len(it) = Cardinality(DOMAIN stored)
    /\ Range(it) = {<<w, stored[w]>> : w \in DOMAIN stored}
    /\ \A i, j \in 1..Len(it) : i < j => str_lt(it[i][1], it[j][1])

EveryStoredWord(words) ==
    /\ Range(words) = DOMAIN stored
    /\ Len(words) = Cardinality(DOMAIN stored)

C17_ItemsAreStoredInOrder ==
    /\ call.op = "items" => StoredInOrder(ret)
    /\ (call.op = "complete" /\ call.word = <<>> /\ call.k >= _words) =>
           EveryStoredWord(ret)
    /\ call = NoCall =>
           /\ StoredInOrder(items(Self))
           /\ \A k \in {_words, _words + 1} :
                  EveryStoredWord(complete(Self, <<>>, k))

C17_Witness ==
    /\ call.op = "items"
    /\ ret = << <<<<"a">>, 2>>, <<<<"a", "a">>, 1>>, <<<<"b">>, 2>> >>

(***************************************************************************)
(* C18: the empty string is a word like any other.  insert("", F) makes    *)
(* the root terminal, raises word_count by 1 if "" was not stored and      *)
(* leaves node_count as it was; then, and whenever "" is stored and no     *)
(* call is in progress, contains("") is true,                              *)
(* "" is in items() and "" is in complete("", k) for every k >= word_count *)
(* (for a smaller k, exactly when fewer than k stored words weigh more,    *)
(* "" being the least word).  remove("") of the stored "" clears the       *)
(* root's terminal flag, lowers word_count by 1 and deletes no node.       *)
(***************************************************************************)
Empty == <<>>

EmptyIsListed ==
    /\ contains(Self, Empty)
    /\ Empty \in {it[1] : it \in Range(items(Self))}
    /\ \A k \in 0..(_words + 1) :
           (Empty \in Range(complete(Self, Empty, k)))
               = (k >= _words
                  \/ Cardinality({w \in DOMAIN stored :
                                     stored[w] > stored[Empty]}) < k)

C18_EmptyWordIsAWord ==
    /\ (call.op = "insert" /\ call.word = Empty) =>
           /\ root.is_word
           /\ root.freq = call.freq
           /\ _words = pre._words + (IF pre.root.is_word THEN 0 ELSE 1)
           /\ _nodes = pre._nodes
           /\ NodePaths(root, Empty) = NodePaths(pre.root, Empty)
           /\ EmptyIsListed
    /\ (call = NoCall /\ root.is_word) => EmptyIsListed
    /\ (call.op = "remove" /\ call.word = Empty /\ pre.root.is_word) =>
           /\ ~root.is_word
           /\ ~contains(Self, Empty)
           /\ _words = pre._words - 1
           /\ _nodes = pre._nodes
           /\ NodePaths(root, Empty) = NodePaths(pre.root, Empty)

C18_Witness ==
    /\ call.op = "remove"
    /\ call.word = Empty
    /\ pre.root.is_word
    /\ ~root.is_word
    /\ _nodes = 3
    /\ _words = 2

(***************************************************************************)
(* C19: history independence.  The reachable nodes are exactly the         *)
(* prefixes (the empty one included) of the stored words and the terminal  *)
(* nodes are exactly the stored words; so a trie reached by any sequence   *)
(* of calls and the trie built by inserting its stored words, with their   *)
(* weights, into a new Trie have the same nodes, the same stats() and the  *)
(* same results of contains, complete and items; and height is the length  *)
(* of the longest stored word.  The two tries are compared whenever no     *)
(* call is in progress, which every sequence of calls comes to.            *)
(***************************************************************************)
PrefixClosure == {<<>>} \cup UNION {Prefixes(w) : w \in DOMAIN stored}

LongestStored ==
    LET ls == {0} \cup {Len(w) : w \in DOMAIN stored}
    IN  CHOOSE l \in ls : \A m \in ls : m <= l

\* The Trie after the words ws are inserted into t, least word first.
RECURSIVE Rebuilt(_, _)
Rebuilt(t, ws) ==
    IF ws = {} THEN t
    ELSE LET w == CHOOSE u \in ws : \A v \in ws \ {u} : str_lt(u, v)
         IN  Rebuilt(insert(t, w, stored[w]), ws \ {w})

C19_HistoryIndependent ==
    /\ NodePaths(root, <<>>) = PrefixClosure
    /\ TerminalPaths(root) = DOMAIN stored
    /\ stats(Self) = <<Cardinality(DOMAIN stored), LongestStored,
                       Cardinality(PrefixClosure)>>
    /\ call = NoCall =>
           LET other == Rebuilt(Trie, DOMAIN stored)
           IN  /\ NodePaths(other.root, <<>>) = NodePaths(root, <<>>)
               /\ stats(other) = stats(Self)
               /\ items(other) = items(Self)
               /\ \A W \in Words : contains(other, W) = contains(Self, W)
               /\ \A P \in Words, k \in Ks :
                      complete(other, P, k) = complete(Self, P, k)

C19_Witness ==
    /\ call = NoCall
    /\ _words = 2
    /\ _nodes = 4
    /\ root # Rebuilt(Trie, DOMAIN stored).root

====
